---- MODULE Spec2Model ----
(***************************************************************************)
(* Tool dispatch, argument validation and error normalisation of the       *)
(* FreshMCP services: CosmosDBServer.execute_tool (src/cosmos/mcp),        *)
(* SearchServer.execute_tool (src/search/mcp and src/search/server) and    *)
(* the tool functions the three services register on the MCP transport.    *)
(*                                                                         *)
(* One invocation is followed from the transport to its return.  Python    *)
(* values are abstracted to tokens that keep what the code looks at:       *)
(* presence of a key in the bag, truthiness of a value, the class of an    *)
(* exception and the text that str(e) yields.  A message is a sequence of  *)
(* text pieces, so that an f-string is a concatenation.                    *)
(*                                                                         *)
(* Spec follows one invocation at a time through every tool and bag;       *)
(* FairSpec adds the fairness of the event loop.  ServiceSpec puts two     *)
(* execute_tool coroutines in flight on the service instances, step by     *)
(* step, together with the lru_cache of the client factories.              *)
(***************************************************************************)
EXTENDS Integers, Sequences, FiniteSets, TLC

\* Number of distinct truthy strings a caller may pass for a string argument.
NumNames == 1

---------------------------------------------------------------------------
(* Python values *)

Services == {"cosmos_mcp", "search_mcp", "search_server"}

StrToken(i) == [ty |-> "str", id |-> i]

\* The values a caller can put under a key that the schema types as string.
StrValues == {[ty |-> "NoneType", id |-> 0], [ty |-> "str", id |-> 0]}
             \cup {StrToken(i) : i \in 1..NumNames}

\* The values a caller can put under a key that the schema types as object.
DictValues == {[ty |-> "NoneType", id |-> 0], [ty |-> "dict", id |-> 0],
               [ty |-> "dict", id |-> 1]}

\* Python truthiness: None, "" and {} are falsy (id 0 is the empty value).
Truthy(v) == v.ty # "NoneType" /\ v.id # 0

DictKeys == {"item", "parameters"}

KeyValues(k) == IF k \in DictKeys THEN DictValues ELSE StrValues

\* The value the i-th choice stands for under key k: None, the empty value
\* of the key's type, then the truthy ones.
Choice(k, i) ==
    IF i = 1 THEN [ty |-> "NoneType", id |-> 0]
    ELSE [ty |-> IF k \in DictKeys THEN "dict" ELSE "str", id |-> i - 2]

\* Every argument bag over the keys ks: a mapping defined on a subset of ks,
\* each key holding a value of its type (choice 0 leaves the key out).
Bags(ks) ==
    {[k \in {x \in ks : c[x] # 0} |-> Choice(k, c[k])] :
        c \in {d \in [ks -> 0..(NumNames + 2)] :
                    \A k \in ks : k \in DictKeys => d[k] <= 3}}

Range(s) == {s[i] : i \in 1..Len(s)}

EmptyBag == [k \in {} |-> [ty |-> "NoneType", id |-> 0]]

---------------------------------------------------------------------------
(* Exceptions and returned values *)

NoExc == [cls |-> "none", msg |-> <<>>]
NoVal == [tag |-> "none", key |-> "", val |-> <<>>]

Exc(c, m) == [cls |-> c, msg |-> m]

\* Class hierarchy of the exception classes the except clauses name
\* (azure.core.exceptions) and of the built-in ones the dispatcher raises.
Ancestors(c) ==
    CASE c = "ResourceNotFoundError" ->
            {"ResourceNotFoundError", "HttpResponseError", "AzureError", "Exception"}
      [] c = "ResourceExistsError" ->
            {"ResourceExistsError", "HttpResponseError", "AzureError", "Exception"}
      [] c = "HttpResponseError" -> {"HttpResponseError", "AzureError", "Exception"}
      [] c = "ServiceRequestError" -> {"ServiceRequestError", "AzureError", "Exception"}
      [] c = "KeyError" -> {"KeyError", "LookupError", "Exception"}
      [] OTHER -> {c, "Exception"}

\* str(e): KeyError shows the repr of the key, every other class its message.
Str(e) == IF e.cls = "KeyError" THEN <<"'">> \o e.msg \o <<"'">> ELSE e.msg

\* {"error": error_msg}
ErrorDict(m) == [tag |-> "dict", key |-> "error", val |-> m]

---------------------------------------------------------------------------
(* The dispatch chains of execute_tool *)

\* One arm of the if/elif chain: the keys it subscripts from tool_args, in
\* order; the variables its "if not ..." tests; the text of the ValueError
\* it raises; the method it calls and the number of arguments it passes.
Arm(n, r, c, m, h, k) ==
    [name |-> n, reads |-> r, checked |-> c, msg |-> m, handler |-> h, nargs |-> k]

ADC == <<"account_name", "database_name", "container_name">>

CosmosChain ==
    << Arm("cosmosdb_account_list", <<"account_name">>, <<"account_name">>,
           "Account name is required", "_list_accounts", 1),
       Arm("cosmosdb_database_list", <<"account_name">>, <<"account_name">>,
           "Account name is required", "_list_databases", 1),
       Arm("cosmosdb_database_describe", <<"account_name", "database_name">>,
           <<"account_name", "database_name">>,
           "Account name and database name are required", "_describe_database", 2),
       Arm("cosmosdb_container_list", <<"account_name", "database_name">>,
           <<"account_name", "database_name">>,
           "Account name and database name are required", "_list_containers", 2),
       Arm("cosmosdb_container_create", ADC \o <<"partition_key">>,
           ADC \o <<"partition_key">>,
           "Account name, database name, container name, and partition key are required",
           "_create_container", 4),
       Arm("cosmosdb_container_describe", ADC, ADC,
           "Account name, database name, and container name are required",
           "_describe_container", 3),
       Arm("cosmosdb_container_delete", ADC, ADC,
           "Account name, database name, and container name are required",
           "_delete_container", 3),
       Arm("cosmosdb_item_create", ADC \o <<"item">>, ADC \o <<"item">>,
           "Account name, database name, container name, and item are required",
           "_create_item", 4),
       Arm("cosmosdb_item_read", ADC \o <<"item_id", "partition_key">>,
           ADC \o <<"item_id", "partition_key">>,
           "Account name, database name, container name, item ID, and partition key are required",
           "_read_item", 5),
       Arm("cosmosdb_item_delete", ADC \o <<"item_id", "partition_key">>,
           ADC \o <<"item_id", "partition_key">>,
           "Account name, database name, container name, item ID, and partition key are required",
           "_delete_item", 5),
       Arm("cosmosdb_item_query", ADC \o <<"query", "parameters">>,
           ADC \o <<"query">>,
           "Account name, database name, container name, and query are required",
           "_query_item", 5),
       Arm("cosmosdb_item_replace", ADC \o <<"item_id", "item", "partition_key">>,
           ADC \o <<"item_id", "item", "partition_key">>,
           "Account name, database name, container name, item ID, item, and partition key are required",
           "_replace_item", 6),
       Arm("cosmosdb_item_delete", ADC \o <<"item_id", "partition_key">>,
           ADC \o <<"item_id", "partition_key">>,
           "Account name, database name, container name, item ID, and partition key are required",
           "_delete_item", 5) >>

SI == <<"service_name", "index_name">>

SearchServerChain ==
    << Arm("search_index_list", <<"service_name">>, <<"service_name">>,
           "Service name is required", "_list_indexes", 1),
       Arm("search_index_delete", SI, SI,
           "Service name and index name are required", "_delete_index", 2),
       Arm("search_index_query", SI \o <<"query">>, SI \o <<"query">>,
           "Service name, index name, and query are required", "_query_index", 4),
       Arm("search_index_describe", SI, SI,
           "Service name and index name are required", "_describe_index", 2) >>

SearchMcpChain ==
    SearchServerChain \o
    << Arm("search_index_create", SI, SI,
           "Service name and index name are required", "_create_index", 2) >>

Chain(s) ==
    CASE s = "cosmos_mcp" -> CosmosChain
      [] s = "search_mcp" -> SearchMcpChain
      [] s = "search_server" -> SearchServerChain

\* The first arm whose test "tool_name == ..." is true; 0 is the else arm.
ArmIndex(s, t) ==
    IF \E i \in 1..Len(Chain(s)) : Chain(s)[i].name = t
    THEN CHOOSE i \in 1..Len(Chain(s)) :
            /\ Chain(s)[i].name = t
            /\ \A j \in 1..(i - 1) : Chain(s)[j].name # t
    ELSE 0

BranchNames(s) == {Chain(s)[i].name : i \in 1..Len(Chain(s))}

\* The methods each server class defines, with their parameter counts
\* (self not counted).  query_type of _query_index has a default value.
HandlerParams(s) ==
    IF s = "cosmos_mcp"
    THEN [h \in {"_list_databases", "_describe_database", "_list_containers",
                 "_create_container", "_describe_container", "_delete_container",
                 "_create_item", "_read_item", "_delete_item", "_query_item",
                 "_replace_item"} |->
            CASE h = "_list_databases" -> 1
              [] h \in {"_describe_database", "_list_containers"} -> 2
              [] h \in {"_describe_container", "_delete_container"} -> 3
              [] h \in {"_create_container", "_create_item", "_read_item",
                        "_delete_item"} -> 4
              [] h = "_query_item" -> 5
              [] h = "_replace_item" -> 6]
    ELSE [h \in {"_list_indexes", "_delete_index", "_query_index", "_describe_index"}
                \cup (IF s = "search_mcp" THEN {"_create_index"} ELSE {}) |->
            CASE h = "_list_indexes" -> 1
              [] h = "_query_index" -> 4
              [] OTHER -> 2]

ClassName(s) == IF s = "cosmos_mcp" THEN "CosmosDBServer" ELSE "SearchServer"

---------------------------------------------------------------------------
(* The tool catalog (get_cosmosdb_tools, get_search_tools) *)

Entry(n, req, opt) == [name |-> n, required |-> req, optional |-> opt]

CosmosCatalog ==
    { Entry("cosmosdb_database_list", {"account_name"}, {}),
      Entry("cosmosdb_database_describe", {"account_name", "database_name"}, {}),
      Entry("cosmosdb_database_create", {"account_name", "database_name"}, {}),
      Entry("cosmosdb_container_create",
            {"account_name", "container_name", "partition_key"}, {"database_name"}),
      Entry("cosmosdb_container_list", {"account_name", "database_name"}, {}),
      Entry("cosmosdb_container_delete",
            {"account_name", "container_name", "database_name"}, {}),
      Entry("cosmosdb_item_read",
            {"account_name", "container_name", "database_name", "item_id",
             "partition_key"}, {}),
      Entry("cosmosdb_item_query",
            {"account_name", "container_name", "database_name", "query"},
            {"parameters"}) }

SearchCatalog ==
    { Entry("search_index_create", {"service_name", "index_name"}, {}),
      Entry("search_index_list", {"service_name"}, {}),
      Entry("search_index_delete", {"service_name", "index_name"}, {}),
      Entry("search_index_describe", {"service_name", "index_name"}, {}),
      Entry("search_index_query", {"service_name", "index_name", "query"},
            {"query_type"}) }

\* get_tools of each server class.  The tools module that search/server
\* imports is not among the sources; statements about the catalog are made
\* for the two services whose catalog is.
Catalog(s) == IF s = "cosmos_mcp" THEN CosmosCatalog ELSE SearchCatalog

CatalogNames(s) == {e.name : e \in Catalog(s)}

CatalogEntry(s, t) == CHOOSE e \in Catalog(s) : e.name = t

---------------------------------------------------------------------------
(* The tool functions registered on the transport (@mcp.tool) *)

\* name: the registered tool name; params: the function's parameters;
\* via: "execute_tool" when the body forwards to execute_tool, "direct" when
\* it calls the handler method itself; handler: the method a direct body calls.
ToolFn(n, ps, v, h) == [name |-> n, params |-> ps, via |-> v, handler |-> h]

CosmosToolFns ==
    { ToolFn("cosmosdb_account_list", <<"account_name">>, "execute_tool", ""),
      ToolFn("cosmosdb_database_list", <<"account_name">>, "execute_tool", ""),
      ToolFn("cosmosdb_database_describe", <<"account_name", "database_name">>,
             "execute_tool", ""),
      ToolFn("cosmosdb_database_create", <<"account_name", "database_name">>,
             "execute_tool", ""),
      ToolFn("cosmosdb_container_list", <<"account_name", "database_name">>,
             "execute_tool", ""),
      ToolFn("cosmosdb_container_create", ADC \o <<"partition_key">>,
             "execute_tool", ""),
      ToolFn("cosmosdb_container_delete", ADC, "execute_tool", ""),
      ToolFn("cosmosdb_item_read", ADC \o <<"item_id", "partition_key">>,
             "execute_tool", ""),
      ToolFn("cosmosdb_item_query", ADC \o <<"query", "parameters">>,
             "execute_tool", "") }

SearchMcpToolFns ==
    { ToolFn("search_index_create", SI, "execute_tool", ""),
      ToolFn("search_index_list", <<"service_name">>, "execute_tool", ""),
      ToolFn("search_index_delete", SI, "execute_tool", ""),
      ToolFn("search_index_query", SI \o <<"query", "query_type">>,
             "execute_tool", ""),
      ToolFn("search_index_describe", SI, "execute_tool", "") }

SearchServerToolFns ==
    { ToolFn("search_index_list", <<"service_name">>, "direct", "_list_indexes"),
      ToolFn("search_index_delete", SI, "direct", "_delete_index"),
      ToolFn("search_index_query", SI \o <<"query", "query_type">>, "direct",
             "_query_index"),
      ToolFn("search_index_describe", SI, "direct", "_describe_index") }

ToolFns(s) ==
    CASE s = "cosmos_mcp" -> CosmosToolFns
      [] s = "search_mcp" -> SearchMcpToolFns
      [] s = "search_server" -> SearchServerToolFns

\* The values the transport binds to a parameter: the annotated type, and
\* None only where the signature gives None as the default.
ParamValues(k) ==
    IF k = "parameters" THEN DictValues
    ELSE {v \in StrValues : v.ty = "str"}

ParamBags(f) ==
    {b \in Bags(Range(f.params)) :
        /\ DOMAIN b = Range(f.params)
        /\ \A k \in DOMAIN b : b[k] \in ParamValues(k)}

\* WrapperBag of a query_items that passes "parameters" as it was bound.
WrapperBagAsBound(f, b) == b

\* The bag a forwarding tool function builds from its parameters; query_items
\* passes "parameters or {}".
WrapperBag(f, b) ==
    [k \in DOMAIN b |->
        IF k = "parameters" /\ ~Truthy(b[k]) THEN [ty |-> "dict", id |-> 0]
        ELSE b[k]]

---------------------------------------------------------------------------
(* execute_tool: the steps of one arm and the except clauses *)

\* ValidationError without the "if not ..." test: only the reads remain.
ValidationErrorNoTest(a, b) ==
    IF \E i \in 1..Len(a.reads) : a.reads[i] \notin DOMAIN b
    THEN LET i == CHOOSE i \in 1..Len(a.reads) :
                    /\ a.reads[i] \notin DOMAIN b
                    /\ \A j \in 1..(i - 1) : a.reads[j] \in DOMAIN b
         IN  Exc("KeyError", <<a.reads[i]>>)
    ELSE NoExc

\* ValidationError with tool_args.get(k) in place of tool_args[k]: an absent
\* key reads as None and is caught by the "if not ..." test.
ValidationErrorGet(a, b) ==
    IF \E i \in 1..Len(a.checked) :
            a.checked[i] \notin DOMAIN b \/ ~Truthy(b[a.checked[i]])
    THEN Exc("ValueError", <<a.msg>>)
    ELSE NoExc

\* tool_args["k"] for each k in a.reads, in order: the first absent key
\* raises KeyError(k).  Then the arm's "if not ... or not ..." test raises
\* ValueError with the arm's text.  NoExc when the arm goes on to the call.
ValidationError(a, b) ==
    IF \E i \in 1..Len(a.reads) : a.reads[i] \notin DOMAIN b
    THEN LET i == CHOOSE i \in 1..Len(a.reads) :
                    /\ a.reads[i] \notin DOMAIN b
                    /\ \A j \in 1..(i - 1) : a.reads[j] \in DOMAIN b
         IN  Exc("KeyError", <<a.reads[i]>>)
    ELSE IF \E i \in 1..Len(a.checked) : ~Truthy(b[a.checked[i]])
         THEN Exc("ValueError", <<a.msg>>)
         ELSE NoExc

\* Evaluating "self.<h>(<n arguments>)": AttributeError when the class has no
\* such method, TypeError when the method takes another number of arguments.
CallError(s, h, n) ==
    IF h \notin DOMAIN HandlerParams(s)
    THEN Exc("AttributeError",
             <<"'", ClassName(s), "' object has no attribute '", h, "'">>)
    ELSE IF n # HandlerParams(s)[h]
         THEN Exc("TypeError",
                  <<ClassName(s), ".", h, "() takes ",
                    ToString(HandlerParams(s)[h] + 1),
                    " positional arguments but ", ToString(n + 1), " were given">>)
         ELSE NoExc

\* raise ValueError(f"Unsupported tool: {tool_name}")
UnsupportedError(t) == Exc("ValueError", <<"Unsupported tool: ", t>>)

\* The except clauses with the first one naming HttpResponseError, the base
\* class of ResourceNotFoundError, instead of ResourceNotFoundError itself.
ExceptClausesBroadNotFound ==
    << [cls |-> "HttpResponseError", prefix |-> "Resource not found: "],
       [cls |-> "ResourceExistsError", prefix |-> "Resource already exists: "],
       [cls |-> "AzureError", prefix |-> "Azure error: "],
       [cls |-> "Exception", prefix |-> "Unexpected error: "] >>

\* The except clauses of execute_tool, in source order.
ExceptClauses ==
    << [cls |-> "ResourceNotFoundError", prefix |-> "Resource not found: "],
       [cls |-> "ResourceExistsError", prefix |-> "Resource already exists: "],
       [cls |-> "AzureError", prefix |-> "Azure error: "],
       [cls |-> "Exception", prefix |-> "Unexpected error: "] >>

\* ClauseIndex without the last clause, "except Exception".
ClauseIndexNoCatchAll(e) ==
    IF \E i \in 1..(Len(ExceptClauses) - 1) : ExceptClauses[i].cls \in Ancestors(e.cls)
    THEN CHOOSE i \in 1..(Len(ExceptClauses) - 1) :
            /\ ExceptClauses[i].cls \in Ancestors(e.cls)
            /\ \A j \in 1..(i - 1) : ExceptClauses[j].cls \notin Ancestors(e.cls)
    ELSE 0

\* ClauseIndex with the clauses tried from the most generic to the most
\* specific: the last clause naming a class of e.
ClauseIndexGenericFirst(e) ==
    IF \E i \in 1..Len(ExceptClauses) : ExceptClauses[i].cls \in Ancestors(e.cls)
    THEN CHOOSE i \in 1..Len(ExceptClauses) :
            /\ ExceptClauses[i].cls \in Ancestors(e.cls)
            /\ \A j \in (i + 1)..Len(ExceptClauses) :
                    ExceptClauses[j].cls \notin Ancestors(e.cls)
    ELSE 0

\* The clause that handles e: the first one naming a class of e; 0 if none.
ClauseIndex(e) ==
    IF \E i \in 1..Len(ExceptClauses) : ExceptClauses[i].cls \in Ancestors(e.cls)
    THEN CHOOSE i \in 1..Len(ExceptClauses) :
            /\ ExceptClauses[i].cls \in Ancestors(e.cls)
            /\ \A j \in 1..(i - 1) : ExceptClauses[j].cls \notin Ancestors(e.cls)
    ELSE 0

\* The error mapping with the prefix of the clause alone, the exception's
\* text left out.
EnvelopePrefixOnly(e) == ErrorDict(<<ExceptClauses[ClauseIndex(e)].prefix>>)

\* error_msg = f"<prefix>{str(e)}"; return {"error": error_msg}
Envelope(e) == ErrorDict(<<ExceptClauses[ClauseIndex(e)].prefix>> \o Str(e))

\* ReturnValue wrapping the handler's value in a {"result": ...} mapping.
ReturnValueWrapped(v) == [tag |-> "dict", key |-> "result", val |-> v.val]

\* return await self._handler(...): the value execute_tool returns for the
\* value v its handler returned.
ReturnValue(v) == v

---------------------------------------------------------------------------
(* The handlers: what the store call can come back with *)

Val(t, k, v) == [tag |-> t, key |-> k, val |-> v]

\* Values a handler can return: the lists built by the list handlers, the
\* fixed message mappings of _create_index and _delete_index, None from
\* delete calls, SDK objects, and item or description mappings whose keys the
\* store decides.
HandlerReturns(h) ==
    CASE h \in {"_list_databases", "_list_containers", "_list_indexes",
                "_query_index"} ->
            {Val("list", "", <<>>), Val("list", "", <<"e1">>)}
      [] h = "_create_index" ->
            {Val("dict", "message", <<"Index ", "index_name", " created successfully">>)}
      [] h = "_delete_index" ->
            {Val("dict", "message", <<"Index ", "index_name", " deleted successfully">>)}
      [] h \in {"_delete_container", "_delete_item"} -> {Val("NoneType", "", <<>>)}
      [] h \in {"_describe_database", "_query_item"} -> {Val("object", "", <<>>)}
      [] OTHER ->
            {Val("dict", "id", <<"e1">>), Val("dict", "error", <<"e1">>),
             Val("dict", "", <<>>)}

\* Failures of a handler: the client factory or the SDK call raising.
HandlerExcs ==
    {Exc(c, <<"store message">>) :
        c \in {"ResourceNotFoundError", "ResourceExistsError", "HttpResponseError",
               "ServiceRequestError", "ValueError", "RuntimeError"}}

---------------------------------------------------------------------------
(* The client factories and the invocations in flight on a service *)

\* The callers whose execute_tool coroutines can be in flight at once.
Callers == {"c1", "c2"}

\* The tools the callers in flight send: on the Cosmos service a tool that
\* reaches the store, one whose call expression fails and a name without an
\* arm; on the search service two tools of the index client and the tool of
\* the search client.
ServiceTools(s) ==
    IF s = "cosmos_mcp"
    THEN {"cosmosdb_database_list", "cosmosdb_account_list", "bogus_tool"}
    ELSE {"search_index_list", "search_index_delete", "search_index_query"}

\* The keys of a bag for tool t: the ones its arm reads.
ServiceKeys(s, t) ==
    IF ArmIndex(s, t) = 0 THEN {"account_name"}
    ELSE Range(Chain(s)[ArmIndex(s, t)].reads)

\* The key that carries the account or service identifier.
IdentifierKeys == {"account_name", "service_name"}

\* The bag over ks with identifier n and one fixed truthy value elsewhere.
FullBag(ks, n) ==
    [k \in ks |-> IF k \in IdentifierKeys THEN StrToken(n)
                  ELSE IF k \in DictKeys THEN [ty |-> "dict", id |-> 1]
                  ELSE StrToken(1)]

\* The string x, where the code looks at the text itself.
Literal(x) == [ty |-> "str", id |-> 1, lit |-> x]

\* The values a caller gives query_type: None, the empty string, the three
\* of the schema's enum, a string outside it, and a mapping.
QueryTypeValues ==
    {[ty |-> "NoneType", id |-> 0], [ty |-> "str", id |-> 0],
     Literal("simple"), Literal("full"), Literal("semantic"), Literal("fuzzy"),
     [ty |-> "dict", id |-> 1]}

\* The bag b with query_type set to v.
WithQueryType(b, v) ==
    [k \in DOMAIN b \cup {"query_type"} |-> IF k = "query_type" THEN v ELSE b[k]]

\* The calls of tool t: with the empty bag and with a full bag for each
\* identifier; search_index_query also with each value of query_type.
ServiceCallsOf(s, t) ==
    {[svc |-> s, tool |-> t, args |-> b] :
        b \in {EmptyBag} \cup {FullBag(ServiceKeys(s, t), n) : n \in 1..NumNames}
              \cup (IF t = "search_index_query"
                    THEN {WithQueryType(FullBag(ServiceKeys(s, t), 1), v) :
                              v \in QueryTypeValues}
                    ELSE {})}

\* query_type = tool_args.get("query_type", "simple")
QueryTypeArg(b) ==
    IF "query_type" \in DOMAIN b THEN b["query_type"] ELSE Literal("simple")

\* Looking a value up in a dict hashes it: a mapping is unhashable.
HashError(v) ==
    IF v.ty = "dict" THEN Exc("TypeError", <<"unhashable type: 'dict'">>) ELSE NoExc

\* query_type_map.get(query_type, QueryType.SIMPLE): what _query_index hands
\* to client.search.
QueryTypeSent(v) ==
    IF "lit" \in DOMAIN v /\ v.lit \in {"simple", "full", "semantic"}
    THEN CASE v.lit = "simple" -> "QueryType.SIMPLE"
           [] v.lit = "full" -> "QueryType.FULL"
           [] v.lit = "semantic" -> "QueryType.SEMANTIC"
    ELSE "QueryType.SIMPLE"

\* The calls the callers in flight make.
ServiceCalls ==
    UNION {UNION {ServiceCallsOf(s, t) : t \in ServiceTools(s)} :
              s \in {"cosmos_mcp", "search_mcp"}}

\* The factory a handler method gets its client from.
FactoryOf(s, h) ==
    IF s = "cosmos_mcp" THEN "get_cosmos_client"
    ELSE IF h = "_query_index" THEN "get_search_client"
    ELSE "get_index_client"

\* The key lru_cache files a factory call under: the arguments of the call.
CacheKey(s, h, b) ==
    [fn  |-> FactoryOf(s, h),
     ids |-> IF s = "cosmos_mcp" THEN <<b["account_name"]>>
             ELSE IF h = "_query_index" THEN <<b["service_name"], b["index_name"]>>
             ELSE <<b["service_name"]>>]

NoKey == [fn |-> "", ids |-> <<>>]

\* The keys the calls in flight can ask a factory for.
CacheKeys ==
    {CacheKey(c.svc, Chain(c.svc)[ArmIndex(c.svc, c.tool)].handler, c.args) :
        c \in {d \in ServiceCalls : ArmIndex(d.svc, d.tool) # 0 /\ d.args # EmptyBag}}

\* Clients of one key are told apart by the order in which they were built;
\* 0 stands for no client.
NoClient == 0

\* lru_cache with maxsize=1: storing under k evicts every other entry.
CacheStoreMaxOne(c, k, v) == [x \in DOMAIN c |-> IF x = k THEN v ELSE NoClient]

\* lru_cache(maxsize=None): the entry is added and nothing is evicted.
CacheStore(c, k, v) == [c EXCEPT ![k] = v]

\* What the client constructor can raise.
ConstructExcs ==
    {Exc(c, <<"construct message">>) : c \in {"ServiceRequestError", "ValueError"}}

\* What the store call of a handler in flight can raise.
StoreExcs == {e \in HandlerExcs : e.cls \in {"ResourceNotFoundError", "RuntimeError"}}

\* The local query_type of an arm that does not bind it.
NoQueryType == [ty |-> "unbound", id |-> 0]

\* The locals of an execute_tool coroutine that has not been called.
IdleCall ==
    [pc |-> "idle", svc |-> "cosmos_mcp", tool |-> "", args |-> EmptyBag,
     handler |-> "", key |-> NoKey, client |-> NoClient, cfail |-> FALSE,
     qtype |-> NoQueryType, sent |-> "", exc |-> NoExc, ret |-> NoVal,
     result |-> NoVal]

---------------------------------------------------------------------------
(* One invocation, from the transport to its return *)

VARIABLES
    pc,       \* position of the invocation
    svc,      \* the service instance invoked
    tool,     \* tool_name
    args,     \* tool_args
    stack,    \* the frames the invocation is in, outermost first
    path,     \* the frames the invocation has entered, in order of entry
    escaped,  \* the frames an exception has propagated out of
    arm,      \* index of the arm of the chain that was entered, 0 if none
    started,  \* whether a handler coroutine has been started
    called,   \* the handler methods started, in order
    exc,      \* the exception raised, NoExc if none
    ret,      \* the value the handler returned, NoVal if none
    result,   \* the value returned to the transport, NoVal if none
    inflight, \* the locals of each caller's execute_tool coroutine
    cache,    \* the entries of the factories' lru_cache: key -> client
    built     \* the number of clients constructed for each key

vars ==
    <<pc, svc, tool, args, stack, path, escaped, arm, started, called, exc, ret,
      result>>

svars == <<inflight, cache, built>>

\* No caller in flight and the caches empty, as after construction.
ServiceIdle ==
    /\ inflight = [i \in Callers |-> IdleCall]
    /\ cache = [k \in CacheKeys |-> NoClient]
    /\ built = [k \in CacheKeys |-> 0]

\* Tool names a caller may send: every name some part of the service knows,
\* and one that none does.
ToolNames(s) ==
    BranchNames(s) \cup CatalogNames(s) \cup {f.name : f \in ToolFns(s)}
    \cup {"bogus_tool"}

\* Keys a caller may put in the bag for tool t.
BagKeys(s, t) ==
    IF ArmIndex(s, t) # 0
    THEN Range(Chain(s)[ArmIndex(s, t)].reads)
         \cup (IF t = "search_index_query" THEN {"query_type"} ELSE {})
    ELSE IF t \in CatalogNames(s)
         THEN CatalogEntry(s, t).required
         ELSE {"account_name"}

Init ==
    /\ pc = "idle"
    /\ svc = "cosmos_mcp"
    /\ tool = ""
    /\ args = EmptyBag
    /\ stack = <<>>
    /\ path = <<>>
    /\ escaped = {}
    /\ arm = 0
    /\ started = FALSE
    /\ called = <<>>
    /\ exc = NoExc
    /\ ret = NoVal
    /\ result = NoVal
    /\ ServiceIdle

\* A caller awaits execute_tool(t, b) on service s.
Invoke ==
    /\ pc = "idle"
    /\ \E s \in Services : \E t \in ToolNames(s) : \E b \in Bags(BagKeys(s, t)) :
            /\ svc' = s
            /\ tool' = t
            /\ args' = b
    /\ pc' = "Received"
    /\ stack' = <<"execute_tool">>
    /\ path' = <<"execute_tool">>
    /\ UNCHANGED <<escaped, arm, started, called, exc, ret, result>>
    /\ UNCHANGED svars

\* The transport calls a registered tool function whose body forwards to
\* execute_tool with a bag built from its parameters.
ToolFnForward ==
    /\ pc = "idle"
    /\ \E s \in Services : \E f \in ToolFns(s) : \E b \in ParamBags(f) :
            /\ f.via = "execute_tool"
            /\ svc' = s
            /\ tool' = f.name
            /\ args' = WrapperBag(f, b)
    /\ pc' = "Received"
    /\ stack' = <<"tool_fn", "execute_tool">>
    /\ path' = <<"tool_fn", "execute_tool">>
    /\ UNCHANGED <<escaped, arm, started, called, exc, ret, result>>
    /\ UNCHANGED svars

\* The transport calls a registered tool function whose body awaits the
\* handler method itself.
ToolFnDirect ==
    /\ pc = "idle"
    /\ \E s \in Services : \E f \in ToolFns(s) : \E b \in ParamBags(f) :
            /\ f.via = "direct"
            /\ svc' = s
            /\ tool' = f.name
            /\ args' = b
            /\ LET ce == CallError(s, f.handler, Len(f.params))
               IN  IF ce # NoExc
                   THEN /\ exc' = ce
                        /\ pc' = "CallFailed"
                        /\ stack' = <<"tool_fn">>
                        /\ path' = <<"tool_fn">>
                        /\ UNCHANGED <<started, called>>
                   ELSE /\ exc' = exc
                        /\ pc' = "Dispatching"
                        /\ stack' = <<"tool_fn", "handler">>
                        /\ path' = <<"tool_fn", "handler">>
                        /\ started' = TRUE
                        /\ called' = Append(called, f.handler)
    /\ UNCHANGED <<escaped, arm, ret, result>>
    /\ UNCHANGED svars

\* Lookup with the else arm left out: an unmatched name falls off the end of
\* the try block and execute_tool returns None.
LookupNoElse ==
    /\ pc = "Received"
    /\ arm' = ArmIndex(svc, tool)
    /\ IF ArmIndex(svc, tool) = 0
       THEN /\ result' = [tag |-> "NoneType", key |-> "", val |-> <<>>]
            /\ pc' = "Returned"
       ELSE /\ result' = result
            /\ pc' = "Validating"
    /\ UNCHANGED <<svc, tool, args, stack, path, escaped, started, called, exc, ret>>
    /\ UNCHANGED svars

\* The if/elif chain on tool_name; its else arm raises.
Lookup ==
    /\ pc = "Received"
    /\ arm' = ArmIndex(svc, tool)
    /\ IF ArmIndex(svc, tool) = 0
       THEN /\ exc' = UnsupportedError(tool)
            /\ pc' = "Rejected"
       ELSE /\ exc' = exc
            /\ pc' = "Validating"
    /\ UNCHANGED <<svc, tool, args, stack, path, escaped, started, called, ret, result>>
    /\ UNCHANGED svars

\* The bag after an arm that took its arguments out with tool_args.pop(key).
BagAfterPops(a, b) == [k \in DOMAIN b \ Range(a.reads) |-> b[k]]

\* The bag after the reads of arm a: tool_args[key] and tool_args.get(key)
\* leave the mapping as it is.
BagAfterReads(a, b) == b

\* The body of the arm up to the await: the reads, the test, the call.
Validate ==
    /\ pc = "Validating"
    /\ LET a  == Chain(svc)[arm]
           ve == ValidationError(a, args)
           ce == CallError(svc, a.handler, a.nargs)
       IN  IF ve # NoExc
           THEN /\ exc' = ve
                /\ pc' = "Rejected"
                /\ UNCHANGED <<stack, path, started, called>>
           ELSE IF ce # NoExc
                THEN /\ exc' = ce
                     /\ pc' = "CallFailed"
                     /\ UNCHANGED <<stack, path, started, called>>
                ELSE /\ exc' = exc
                     /\ pc' = "Dispatching"
                     /\ stack' = Append(stack, "handler")
                     /\ path' = Append(path, "handler")
                     /\ started' = TRUE
                     /\ called' = Append(called, a.handler)
    /\ args' = BagAfterReads(Chain(svc)[arm], args)
    /\ UNCHANGED <<svc, tool, escaped, arm, ret, result>>
    /\ UNCHANGED svars

\* The method the running handler frame belongs to.
CurrentHandler ==
    IF arm # 0 THEN Chain(svc)[arm].handler
    ELSE (CHOOSE f \in ToolFns(svc) : f.name = tool).handler

Pop(st) == SubSeq(st, 1, Len(st) - 1)

Top(st) == st[Len(st)]

\* The handler returns one of the values it can return.
HandlerReturn ==
    /\ pc = "Dispatching"
    /\ \E v \in HandlerReturns(CurrentHandler) : ret' = v
    /\ stack' = Pop(stack)
    /\ pc' = "HandlerSucceeded"
    /\ UNCHANGED <<svc, tool, args, path, escaped, arm, started, called, exc, result>>
    /\ UNCHANGED svars

\* The handler raises e.
HandlerRaise(e) ==
    /\ pc = "Dispatching"
    /\ exc' = e
    /\ stack' = Pop(stack)
    /\ escaped' = {"handler"}
    /\ pc' = "HandlerFailed"
    /\ UNCHANGED <<svc, tool, args, path, arm, started, called, ret, result>>
    /\ UNCHANGED svars

\* "return await ...": the awaiting frames pass the value to the transport.
Return ==
    /\ pc = "HandlerSucceeded"
    /\ result' = IF Top(stack) = "execute_tool" THEN ReturnValue(ret) ELSE ret
    /\ stack' = <<>>
    /\ pc' = "Returned"
    /\ UNCHANGED <<svc, tool, args, path, escaped, arm, started, called, exc, ret>>
    /\ UNCHANGED svars

\* Catch with one retry: a failed handler is awaited a second time before the
\* exception is handed to the except clauses.
CatchRetry ==
    /\ pc \in {"Rejected", "CallFailed", "HandlerFailed"}
    /\ Top(stack) = "execute_tool"
    /\ IF pc = "HandlerFailed" /\ Len(called) < 2
       THEN /\ pc' = "Dispatching"
            /\ stack' = Append(stack, "handler")
            /\ path' = Append(path, "handler")
            /\ called' = Append(called, called[Len(called)])
            /\ exc' = NoExc
            /\ UNCHANGED <<escaped, result>>
       ELSE /\ IF ClauseIndex(exc) # 0
               THEN /\ result' = Envelope(exc)
                    /\ pc' = "Returned"
                    /\ UNCHANGED escaped
               ELSE /\ result' = result
                    /\ pc' = "Raised"
                    /\ escaped' = escaped \cup Range(stack)
            /\ stack' = <<>>
            /\ UNCHANGED <<path, called, exc>>
    /\ UNCHANGED <<svc, tool, args, arm, started, ret>>
    /\ UNCHANGED svars

\* An exception reaches the try statement of execute_tool: the first clause
\* that names one of its classes returns the error mapping; with no such
\* clause it leaves execute_tool, and the tool function above has no try.
Catch ==
    /\ pc \in {"Rejected", "CallFailed", "HandlerFailed"}
    /\ Top(stack) = "execute_tool"
    /\ IF ClauseIndex(exc) # 0
       THEN /\ result' = Envelope(exc)
            /\ pc' = "Returned"
            /\ UNCHANGED escaped
       ELSE /\ result' = result
            /\ pc' = "Raised"
            /\ escaped' = escaped \cup Range(stack)
    /\ stack' = <<>>
    /\ UNCHANGED <<svc, tool, args, path, arm, started, called, exc, ret>>
    /\ UNCHANGED svars

\* An exception reaches a tool function that called the handler itself: no
\* try statement encloses the call, so it leaves the tool function.
Propagate ==
    /\ pc \in {"CallFailed", "HandlerFailed"}
    /\ Top(stack) = "tool_fn"
    /\ pc' = "Raised"
    /\ escaped' = escaped \cup {"tool_fn"}
    /\ stack' = <<>>
    /\ UNCHANGED <<svc, tool, args, path, arm, started, called, exc, ret, result>>
    /\ UNCHANGED svars

\* The transport has the outcome; the invocation's state is discarded.
Done ==
    /\ pc \in {"Returned", "Raised"}
    /\ pc' = "idle"
    /\ svc' = "cosmos_mcp"
    /\ tool' = ""
    /\ args' = EmptyBag
    /\ stack' = <<>>
    /\ path' = <<>>
    /\ escaped' = {}
    /\ arm' = 0
    /\ started' = FALSE
    /\ called' = <<>>
    /\ exc' = NoExc
    /\ ret' = NoVal
    /\ result' = NoVal
    /\ UNCHANGED svars

Next ==
    \/ Invoke
    \/ ToolFnForward
    \/ ToolFnDirect
    \/ Lookup
    \/ Validate
    \/ HandlerReturn
    \/ \E e \in HandlerExcs : HandlerRaise(e)
    \/ Return
    \/ Catch
    \/ Propagate
    \/ Done

Spec == Init /\ [][Next]_vars

\* The event loop runs a coroutine that is ready: each step of execute_tool
\* and of a tool function is taken once it can be.  Nothing makes a store
\* call resolve, so the handler's steps carry no fairness.
Fairness ==
    /\ WF_vars(Lookup)
    /\ WF_vars(Validate)
    /\ WF_vars(Return)
    /\ WF_vars(Catch)
    /\ WF_vars(Propagate)

FairSpec == Spec /\ Fairness

---------------------------------------------------------------------------
(* Several execute_tool coroutines in flight, sharing the client caches *)

\* Every coroutine reads the tool_args stored by the first caller, as if the
\* bag were kept on the service instance.
LocalsOnInstance(i) == [inflight[i] EXCEPT !.args = inflight["c1"].args]

\* The locals of caller i's coroutine: tool_name, tool_args and what the
\* frames below have bound are the coroutine's own.
Locals(i) == inflight[i]

\* A caller awaits execute_tool(tool, args).
ExecuteToolEnter(i) ==
    /\ inflight[i].pc = "idle"
    /\ \E c \in ServiceCalls :
            inflight' = [inflight EXCEPT ![i] =
                            [IdleCall EXCEPT !.pc = "Received", !.svc = c.svc,
                                             !.tool = c.tool, !.args = c.args]]
    /\ UNCHANGED <<cache, built>>
    /\ UNCHANGED vars

\* execute_tool asking the factory for the client of tool_args' account
\* before it looks at the tool name: the chain then runs as it does.
ExecuteToolBodyClientFirst(i) ==
    /\ inflight[i].pc = "Received"
    /\ LET r == Locals(i)
           n == ArmIndex(r.svc, r.tool)
           e == IF n = 0 THEN UnsupportedError(r.tool)
                ELSE IF ValidationError(Chain(r.svc)[n], r.args) # NoExc
                     THEN ValidationError(Chain(r.svc)[n], r.args)
                     ELSE CallError(r.svc, Chain(r.svc)[n].handler,
                                    Chain(r.svc)[n].nargs)
           k == CacheKey(r.svc, "_list_databases", r.args)
       IN  /\ inflight' = [inflight EXCEPT ![i] =
                IF e # NoExc
                THEN [@ EXCEPT !.pc = "Failed", !.exc = e]
                ELSE [@ EXCEPT !.pc = "Dispatching",
                               !.handler = Chain(r.svc)[n].handler,
                               !.key = CacheKey(r.svc, Chain(r.svc)[n].handler, r.args),
                               !.qtype = IF r.tool = "search_index_query"
                                         THEN QueryTypeArg(r.args)
                                         ELSE NoQueryType]]
           /\ IF r.svc = "cosmos_mcp" /\ "account_name" \in DOMAIN r.args
                    /\ cache[k] = NoClient
              THEN /\ built' = [built EXCEPT ![k] = @ + 1]
                   /\ cache' = CacheStore(cache, k, built[k] + 1)
              ELSE UNCHANGED <<cache, built>>
    /\ UNCHANGED vars

\* The if/elif chain and the body of the arm up to the await: no point of
\* suspension lies between them.
ExecuteToolBody(i) ==
    /\ inflight[i].pc = "Received"
    /\ LET r == Locals(i)
           n == ArmIndex(r.svc, r.tool)
           e == IF n = 0 THEN UnsupportedError(r.tool)
                ELSE IF ValidationError(Chain(r.svc)[n], r.args) # NoExc
                     THEN ValidationError(Chain(r.svc)[n], r.args)
                     ELSE CallError(r.svc, Chain(r.svc)[n].handler,
                                    Chain(r.svc)[n].nargs)
       IN  inflight' = [inflight EXCEPT ![i] =
                IF e # NoExc
                THEN [@ EXCEPT !.pc = "Failed", !.exc = e]
                ELSE [@ EXCEPT !.pc = "Dispatching",
                               !.handler = Chain(r.svc)[n].handler,
                               !.key = CacheKey(r.svc, Chain(r.svc)[n].handler, r.args),
                               !.qtype = IF r.tool = "search_index_query"
                                         THEN QueryTypeArg(r.args)
                                         ELSE NoQueryType]]
    /\ UNCHANGED <<cache, built>>
    /\ UNCHANGED vars

\* The factory with a cache that stores a failed construction too (as the
\* entry -1), and raises again on every later call for the key without
\* constructing.
GetClientMemoFailure(i) ==
    /\ inflight[i].pc = "Dispatching"
    /\ LET k == inflight[i].key
       IN  IF cache[k] = -1
           THEN /\ \E e \in ConstructExcs :
                     inflight' = [inflight EXCEPT ![i] =
                         [@ EXCEPT !.pc = "Failed", !.exc = e, !.cfail = TRUE]]
                /\ UNCHANGED <<cache, built>>
           ELSE IF cache[k] # NoClient
           THEN /\ inflight' = [inflight EXCEPT ![i] =
                        [@ EXCEPT !.pc = "Calling", !.client = cache[k]]]
                /\ UNCHANGED <<cache, built>>
           ELSE \/ /\ inflight' = [inflight EXCEPT ![i] =
                        [@ EXCEPT !.pc = "Calling", !.client = built[k] + 1]]
                   /\ built' = [built EXCEPT ![k] = @ + 1]
                   /\ cache' = CacheStore(cache, k, built[k] + 1)
                \/ /\ \E e \in ConstructExcs :
                        inflight' = [inflight EXCEPT ![i] =
                            [@ EXCEPT !.pc = "Failed", !.exc = e, !.cfail = TRUE]]
                   /\ cache' = CacheStore(cache, k, -1)
                   /\ UNCHANGED built
    /\ UNCHANGED vars

\* The factory with a point of suspension between the look-up and the
\* construction: a coroutine that missed builds and stores its client when
\* it resumes, whatever was stored in between.
GetClientSuspending(i) ==
    /\ inflight[i].pc \in {"Dispatching", "Constructing"}
    /\ LET k == inflight[i].key
       IN  IF inflight[i].pc = "Dispatching"
           THEN /\ inflight' = [inflight EXCEPT ![i] =
                        IF cache[k] # NoClient
                        THEN [@ EXCEPT !.pc = "Calling", !.client = cache[k]]
                        ELSE [@ EXCEPT !.pc = "Constructing"]]
                /\ UNCHANGED <<cache, built>>
           ELSE /\ inflight' = [inflight EXCEPT ![i] =
                        [@ EXCEPT !.pc = "Calling", !.client = built[k] + 1]]
                /\ built' = [built EXCEPT ![k] = @ + 1]
                /\ cache' = CacheStore(cache, k, built[k] + 1)
    /\ UNCHANGED vars

\* The factory with a cache whose clients cannot be used twice: a hit raises.
GetClientSingleUse(i) ==
    /\ inflight[i].pc = "Dispatching"
    /\ LET k == inflight[i].key
       IN  IF cache[k] # NoClient
           THEN /\ inflight' = [inflight EXCEPT ![i] =
                        [@ EXCEPT !.pc = "Failed",
                                  !.exc = Exc("RuntimeError", <<"client is closed">>)]]
                /\ UNCHANGED <<cache, built>>
           ELSE /\ inflight' = [inflight EXCEPT ![i] =
                        [@ EXCEPT !.pc = "Calling", !.client = built[k] + 1]]
                /\ built' = [built EXCEPT ![k] = @ + 1]
                /\ cache' = CacheStore(cache, k, built[k] + 1)
    /\ UNCHANGED vars

\* The handler asks the factory for its client.  lru_cache returns the stored
\* client on a hit; on a miss the body runs, and the client it returns is
\* stored, while an exception it raises is stored nowhere.  The factory has
\* no point of suspension, so look-up, construction and storing are one step.
GetClient(i) ==
    /\ inflight[i].pc = "Dispatching"
    /\ LET k == inflight[i].key
       IN  IF cache[k] # NoClient
           THEN /\ inflight' = [inflight EXCEPT ![i] =
                        [@ EXCEPT !.pc = "Calling", !.client = cache[k]]]
                /\ UNCHANGED <<cache, built>>
           ELSE \/ /\ inflight' = [inflight EXCEPT ![i] =
                        [@ EXCEPT !.pc = "Calling", !.client = built[k] + 1]]
                   /\ built' = [built EXCEPT ![k] = @ + 1]
                   /\ cache' = CacheStore(cache, k, built[k] + 1)
                \/ /\ \E e \in ConstructExcs :
                        inflight' = [inflight EXCEPT ![i] =
                            [@ EXCEPT !.pc = "Failed", !.exc = e, !.cfail = TRUE]]
                   /\ UNCHANGED <<cache, built>>
    /\ UNCHANGED vars

\* What the handler of coroutine r puts in its store call beyond the
\* identifiers: the query type of client.search, nothing for the others.
StoreRequest(r) ==
    IF r.handler = "_query_index" /\ HashError(r.qtype) = NoExc
    THEN QueryTypeSent(r.qtype)
    ELSE ""

\* What evaluating the arguments of the store call raises in coroutine r.
StoreArgError(r) ==
    IF r.handler = "_query_index" THEN HashError(r.qtype) ELSE NoExc

\* The store call of the handler returns.
StoreReturn(i) ==
    /\ inflight[i].pc = "Calling"
    /\ StoreArgError(inflight[i]) = NoExc
    /\ \E v \in HandlerReturns(inflight[i].handler) :
            inflight' = [inflight EXCEPT ![i] =
                [@ EXCEPT !.pc = "Succeeded", !.ret = v,
                          !.sent = StoreRequest(inflight[i])]]
    /\ UNCHANGED <<cache, built>>
    /\ UNCHANGED vars

\* The store call of the handler raises.
StoreRaise(i) ==
    /\ inflight[i].pc = "Calling"
    /\ \E e \in (IF StoreArgError(inflight[i]) = NoExc
                 THEN StoreExcs
                 ELSE {StoreArgError(inflight[i])}) :
            inflight' = [inflight EXCEPT ![i] =
                [@ EXCEPT !.pc = "Failed", !.exc = e,
                          !.sent = StoreRequest(inflight[i])]]
    /\ UNCHANGED <<cache, built>>
    /\ UNCHANGED vars

\* execute_tool returns: the handler's value, or the error mapping of the
\* except clause that caught the exception.
ExecuteToolExit(i) ==
    /\ inflight[i].pc \in {"Succeeded", "Failed"}
    /\ LET r == Locals(i)
       IN  inflight' = [inflight EXCEPT ![i] =
                [@ EXCEPT !.pc = "Returned",
                          !.result = IF inflight[i].pc = "Failed" THEN Envelope(r.exc)
                                     ELSE ReturnValue(r.ret)]]
    /\ UNCHANGED <<cache, built>>
    /\ UNCHANGED vars

\* The caller has its answer; the coroutine's frame is dropped.
Discard(i) ==
    /\ inflight[i].pc = "Returned"
    /\ inflight' = [inflight EXCEPT ![i] = IdleCall]
    /\ UNCHANGED <<cache, built>>
    /\ UNCHANGED vars

ServiceNext ==
    \E i \in Callers :
        \/ ExecuteToolEnter(i)
        \/ ExecuteToolBody(i)
        \/ GetClient(i)
        \/ StoreReturn(i)
        \/ StoreRaise(i)
        \/ ExecuteToolExit(i)
        \/ Discard(i)

\* The coroutines of the callers interleave step by step; the caches live
\* as long as the service instance.
ServiceSpec == Init /\ [][ServiceNext]_<<vars, svars>>

---------------------------------------------------------------------------
(* Reading the returned value *)

\* The returned value has the failure shape {"error": message}.
IsFailure(v) == v.tag = "dict" /\ v.key = "error"

\* The category a failure mapping carries: the prefix the except clause put
\* in front of the message is all that tells the categories apart.
Category(v) ==
    IF ~IsFailure(v) \/ v.val = <<>> THEN "none"
    ELSE CASE v.val[1] = "Resource not found: " -> "ResourceNotFound"
           [] v.val[1] = "Resource already exists: " -> "ResourceAlreadyExists"
           [] v.val[1] = "Azure error: " -> "StoreError"
           [] v.val[1] = "Unexpected error: " -> "UnexpectedError"
           [] OTHER -> "none"

\* The invocation went through execute_tool and is over.
ExecuteToolOver == pc \in {"Returned", "Raised"} /\ "execute_tool" \in Range(path)

---------------------------------------------------------------------------
(* Claims *)

FieldsNamedBy(text) ==
    CASE text = "Account name is required" -> {"account_name"}
      [] text = "Account name and database name are required" ->
            {"account_name", "database_name"}
      [] text = "Account name, database name, and container name are required" ->
            {"account_name", "database_name", "container_name"}
      [] text = "Account name, database name, container name, and partition key are required" ->
            {"account_name", "database_name", "container_name", "partition_key"}
      [] text = "Account name, database name, container name, and item are required" ->
            {"account_name", "database_name", "container_name", "item"}
      [] text = "Account name, database name, container name, item ID, and partition key are required" ->
            {"account_name", "database_name", "container_name", "item_id",
             "partition_key"}
      [] text = "Account name, database name, container name, and query are required" ->
            {"account_name", "database_name", "container_name", "query"}
      [] text = "Account name, database name, container name, item ID, item, and partition key are required" ->
            {"account_name", "database_name", "container_name", "item_id", "item",
             "partition_key"}
      [] text = "Service name is required" -> {"service_name"}
      [] text = "Service name and index name are required" ->
            {"service_name", "index_name"}
      [] text = "Service name, index name, and query are required" ->
            {"service_name", "index_name", "query"}
      [] OTHER -> {}

AllKeys ==
    UNION {UNION {Range(Chain(s)[i].reads) : i \in 1..Len(Chain(s))} : s \in Services}

\* The argument keys a message names: a key quoted in it, or the fields its
\* text lists.
NamedIn(v) ==
    UNION {(IF v.val[i] \in AllKeys THEN {v.val[i]} ELSE {})
           \cup FieldsNamedBy(v.val[i]) : i \in 1..Len(v.val)}

\* The required arguments of the entered arm that the bag lacks or holds a
\* falsy value for.
Missing ==
    {k \in Range(Chain(svc)[arm].checked) : k \notin DOMAIN args \/ ~Truthy(args[k])}

\* The keys the entered arm reads that the bag lacks.
Absent == {k \in Range(Chain(svc)[arm].reads) : k \notin DOMAIN args}

\* execute_tool is over for a registered tool whose bag misses required arguments.
RejectedCase == ExecuteToolOver /\ arm # 0 /\ Missing # {}

PresentFalsy ==
    {k \in Range(Chain(svc)[arm].checked) : k \in DOMAIN args /\ ~Truthy(args[k])}

\* The bag b with key r removed.
Without(b, r) == [k \in DOMAIN b \ {r} |-> b[k]]

\* What execute_tool returns for a bag that its arm a rejects.
RejectionOf(a, b) == Envelope(ValidationError(a, b))

Required(s, t) ==
    (IF ArmIndex(s, t) # 0 THEN Range(Chain(s)[ArmIndex(s, t)].checked) ELSE {})
    \cup (IF t \in CatalogNames(s) THEN CatalogEntry(s, t).required ELSE {})

\* C5: validation gates dispatch: in every state of an invocation of
\* execute_tool, a handler has been started only if every required argument
\* of the tool is present in the bag with a truthy value.
C5_ValidationGatesDispatch ==
    (started /\ "execute_tool" \in Range(path)) =>
        \A k \in Required(svc, tool) : k \in DOMAIN args /\ Truthy(args[k])

\* A handler with six required arguments is running.
C5_Witness ==
    /\ pc = "Dispatching"
    /\ started
    /\ tool = "cosmosdb_item_replace"
    /\ Top(stack) = "handler"

\* C6: when the handler of a registered tool returns v, execute_tool returns
\* exactly v.
C6_ReturnsHandlerValue ==
    (ExecuteToolOver /\ ret # NoVal) => pc = "Returned" /\ result = ret

\* A handler returned a mapping and execute_tool returned it.
C6_Witness ==
    /\ ExecuteToolOver
    /\ ret.tag = "dict"
    /\ ret.key = "id"
    /\ result = ret

\* The most specific category the classes of exception class c allow.
MostSpecific(c) ==
    IF "ResourceNotFoundError" \in Ancestors(c) THEN "ResourceNotFound"
    ELSE IF "ResourceExistsError" \in Ancestors(c) THEN "ResourceAlreadyExists"
    ELSE IF "AzureError" \in Ancestors(c) THEN "StoreError"
    ELSE "UnexpectedError"

\* C7: classification is specificity-ordered: a handler failure that is a
\* ResourceNotFoundError or a ResourceExistsError is returned as
\* ResourceNotFound or ResourceAlreadyExists, never as StoreError or
\* UnexpectedError, and every failure gets the most specific category that
\* one of its classes has.
C7_SpecificBeforeGeneric ==
    (ExecuteToolOver /\ exc # NoExc) =>
        /\ IsFailure(result)
        /\ exc.cls = "ResourceNotFoundError" => Category(result) = "ResourceNotFound"
        /\ exc.cls = "ResourceExistsError" => Category(result) = "ResourceAlreadyExists"
        /\ Category(result) = MostSpecific(exc.cls)

\* A handler raised ResourceNotFoundError and the specific category came back.
C7_Witness ==
    /\ ExecuteToolOver
    /\ "handler" \in escaped
    /\ exc.cls = "ResourceNotFoundError"
    /\ Category(result) = "ResourceNotFound"

\* C8 as stated: every tool function registered on the transport reaches its
\* handler only through execute_tool, so a handler failure comes back to the
\* transport as a failure mapping and no exception leaves a tool function.
C8_Original ==
    /\ "tool_fn" \notin escaped
    /\ (pc \in {"Returned", "Raised"} /\ "tool_fn" \in Range(path)
            /\ "handler" \in escaped) =>
          /\ "execute_tool" \in Range(path)
          /\ pc = "Returned"
          /\ IsFailure(result)

\* C9 as stated: advertised names and accepted names coincide: every name of
\* the catalog and every name a forwarding tool function sends has a
\* dispatch arm, exactly one arm tests for each accepted name, and every
\* accepted name is in the catalog.
C9_Original ==
    (svc # "search_server" /\ pc \in {"Validating", "Rejected"}) =>
        /\ (tool \in CatalogNames(svc) \/ path[1] = "tool_fn") => arm # 0
        /\ arm # 0 =>
              /\ tool \in CatalogNames(svc)
              /\ Cardinality({i \in 1..Len(Chain(svc)) : Chain(svc)[i].name = tool}) = 1

\* C10 as stated: a bag that gives a truthy value to each field the catalog
\* lists as required, and leaves out the optional ones, passes validation and
\* reaches the handler.
C10_Original ==
    (/\ ExecuteToolOver
     /\ svc # "search_server"
     /\ tool \in CatalogNames(svc)
     /\ DOMAIN args = CatalogEntry(svc, tool).required
     /\ \A k \in DOMAIN args : Truthy(args[k]))
    => started

\* C11 as stated: for every tool name with an arm in execute_tool, an
\* invocation whose required arguments are all present and truthy, and in
\* which no store call fails, returns the handler's value and never a failure
\* mapping that execute_tool's own call of the handler produced.
C11_Original ==
    (ExecuteToolOver /\ arm # 0 /\ Missing = {} /\ Absent = {}
        /\ "handler" \notin escaped) =>
        /\ started
        /\ ret # NoVal
        /\ result = ret

\* The item tools.
ItemTools ==
    {"cosmosdb_item_create", "cosmosdb_item_read", "cosmosdb_item_delete",
     "cosmosdb_item_query", "cosmosdb_item_replace"}

\* The bag has no partition_key or a falsy one.
NoPartitionKey == "partition_key" \notin DOMAIN args \/ ~Truthy(args["partition_key"])

\* C12 as stated: cosmosdb_item_query passes validation without a
\* partition_key, and each of cosmosdb_item_create, cosmosdb_item_read,
\* cosmosdb_item_delete and cosmosdb_item_replace is rejected at validation
\* when partition_key is absent or empty.
C12_Original ==
    (ExecuteToolOver /\ svc = "cosmos_mcp" /\ tool \in ItemTools /\ NoPartitionKey) =>
        IF tool = "cosmosdb_item_query"
        THEN (Missing = {} /\ Absent = {}) => started
        ELSE ~started /\ exc.cls \in {"KeyError", "ValueError"} /\ IsFailure(result)

\* C12 amended: neither cosmosdb_item_query nor cosmosdb_item_create reads
\* partition_key: a bag without it reaches the handler whenever every key the
\* arm does read is present and every argument it tests is truthy.  Each of
\* cosmosdb_item_read, cosmosdb_item_delete and cosmosdb_item_replace is
\* rejected before any handler is started when partition_key is absent or
\* falsy.
C12_PartitionKeyOnlyWhereRead ==
    (ExecuteToolOver /\ svc = "cosmos_mcp" /\ tool \in ItemTools /\ NoPartitionKey) =>
        IF tool \in {"cosmosdb_item_query", "cosmosdb_item_create"}
        THEN /\ "partition_key" \notin Range(Chain(svc)[arm].reads)
             /\ (Missing = {} /\ Absent = {}) => started
        ELSE /\ ~started
             /\ exc.cls \in {"KeyError", "ValueError"}
             /\ pc = "Returned"
             /\ IsFailure(result)

\* An item was created from a bag that has no partition_key.
C12_Witness ==
    /\ ExecuteToolOver
    /\ tool = "cosmosdb_item_create"
    /\ "partition_key" \notin DOMAIN args
    /\ started
    /\ ret # NoVal

\* part occurs in whole as a run of consecutive elements.
Contains(whole, part) ==
    \E i \in 0..(Len(whole) - Len(part)) :
        \A j \in 1..Len(part) : whole[i + j] = part[j]

\* C13: a handler failure's message is preserved: whatever clause catches a
\* failure e raised by a handler, the message of the failure mapping that
\* execute_tool returns contains str(e) in full, after the clause's prefix.
C13_MessagePreserved ==
    (ExecuteToolOver /\ "handler" \in escaped) =>
        /\ pc = "Returned"
        /\ IsFailure(result)
        /\ Str(exc) # <<>>
        /\ Contains(result.val, Str(exc))
        /\ result.val = <<ExceptClauses[ClauseIndex(exc)].prefix>> \o Str(exc)

\* A store error that is neither of the two specific classes came back with
\* its text behind the "Azure error: " prefix.
C13_Witness ==
    /\ ExecuteToolOver
    /\ "handler" \in escaped
    /\ exc.cls = "HttpResponseError"
    /\ result.val = <<"Azure error: ", "store message">>

\* C14 as stated: the returned value tells by itself whether the invocation
\* succeeded: execute_tool returns a value of the shape {"error": message}
\* exactly when an exception was caught, and never when it passes on a value
\* that a handler returned.
C14_Original ==
    (ExecuteToolOver /\ pc = "Returned") =>
        /\ IsFailure(result) <=> exc # NoExc
        /\ ret # NoVal => ~IsFailure(result)

\* The handler method the code maps tool t of service s to: the one the
\* first arm of the chain that tests for t awaits, or, for a tool function
\* that bypasses execute_tool, the one that function awaits.
MappedHandler ==
    IF "execute_tool" \in Range(path)
    THEN Chain(svc)[ArmIndex(svc, tool)].handler
    ELSE (CHOOSE f \in ToolFns(svc) : f.name = tool).handler

\* C18: no retry: within one invocation at most one handler is started, it is
\* the handler mapped to the tool name, and it is started once; after the
\* handler has failed no handler frame is entered again, up to and including
\* the return of the failure mapping.
C18_NoRetry ==
    /\ Len(called) <= 1
    /\ started <=> called # <<>>
    /\ called # <<>> => called = <<MappedHandler>>
    /\ "handler" \in escaped =>
          /\ "handler" \notin Range(stack)
          /\ Len(SelectSeq(path, LAMBDA f : f = "handler")) = 1

\* A handler failed, the failure mapping was returned, and the handler had
\* been started once.
C18_Witness ==
    /\ ExecuteToolOver
    /\ "handler" \in escaped
    /\ IsFailure(result)
    /\ called = <<"_query_index">>

\* The stage of the pipeline a position of the invocation stands for.
Stage(p) == IF p = "Returned" THEN "Enveloped" ELSE p

\* The steps of the pipeline Received, Validating, Rejected or Dispatching,
\* HandlerSucceeded or HandlerFailed, Enveloped.  A name without an arm is
\* rejected by the lookup itself, which is counted as a rejection.
PipelineSteps ==
    {<<"idle", "Received">>,
     <<"Received", "Validating">>, <<"Received", "Rejected">>,
     <<"Validating", "Rejected">>, <<"Validating", "Dispatching">>,
     <<"Dispatching", "HandlerSucceeded">>, <<"Dispatching", "HandlerFailed">>,
     <<"Rejected", "Enveloped">>,
     <<"HandlerSucceeded", "Enveloped">>, <<"HandlerFailed", "Enveloped">>}

\* C19 as stated: every step of an invocation of execute_tool is a step of
\* the pipeline: an invocation that passed validation enters Dispatching, only
\* Rejected, HandlerSucceeded and HandlerFailed lead to Enveloped, and
\* Enveloped has no successor within the invocation.
C19_Original ==
    [][("execute_tool" \in Range(path')) => <<Stage(pc), Stage(pc')>> \in PipelineSteps]_vars

\* C20: under fairness of the steps of execute_tool, an invocation rejected
\* before dispatch returns a failure mapping, an invocation whose handler has
\* resolved, to a value or to a failure, returns, and every invocation either
\* returns or is waiting for its handler; while it waits, the only steps are
\* the handler's own (no timeout, no cancellation), and nothing is returned
\* until the handler has resolved.
C20_ReturnsOnceResolved ==
    /\ (pc = "Rejected") ~> (pc = "Returned" /\ IsFailure(result))
    /\ (pc \in {"HandlerSucceeded", "HandlerFailed"} /\ "execute_tool" \in Range(path))
          ~> (pc = "Returned" /\ result # NoVal)
    /\ (pc = "Received") ~> (pc \in {"Returned", "Dispatching"})
    /\ [][pc = "Dispatching" =>
            /\ pc' \in {"HandlerSucceeded", "HandlerFailed"}
            /\ result' = NoVal]_vars

\* A handler of execute_tool resolved to a failure and the failure mapping
\* was returned.
C20_Witness ==
    /\ pc = "Returned"
    /\ path = <<"execute_tool", "handler">>
    /\ "handler" \in escaped
    /\ exc.cls = "ServiceRequestError"
    /\ IsFailure(result)

\* Callers i and j sent the same tool name and equal bags to the same service.
SameCall(i, j) ==
    /\ inflight[i].svc = inflight[j].svc
    /\ inflight[i].tool = inflight[j].tool
    /\ inflight[i].args = inflight[j].args

\* The store call of the coroutine r has come back.
HasOutcome(r) == r.client # NoClient /\ r.pc \in {"Succeeded", "Failed", "Returned"}

\* What callers i and j saw of the store is what a deterministic store
\* without side effects shows: constructing a client for one key fails for
\* both or for neither, and with the same exception; the same store call
\* came back the same way.
Deterministic(i, j) ==
    LET ri == inflight[i]
        rj == inflight[j]
    IN  /\ ri.key = rj.key =>
              /\ ~(ri.cfail /\ rj.client # NoClient)
              /\ ~(rj.cfail /\ ri.client # NoClient)
              /\ (ri.cfail /\ rj.cfail) => ri.exc = rj.exc
        /\ (SameCall(i, j) /\ HasOutcome(ri) /\ HasOutcome(rj)) =>
              ri.exc = rj.exc /\ ri.ret = rj.ret

\* C15: idempotence of execute_tool: two calls with the same tool name and
\* equal bags, against a store that answers the same call the same way,
\* return equal results, whatever other calls were made before or between
\* them and whether the client came from the cache or was built.
C15_Idempotent ==
    \A i, j \in Callers :
        (/\ i # j
         /\ inflight[i].pc = "Returned"
         /\ inflight[j].pc = "Returned"
         /\ SameCall(i, j)
         /\ Deterministic(i, j))
        => inflight[i].result = inflight[j].result

\* Two equal calls returned the same list; one built the client, the other
\* took it from the cache, and a client of another key was built as well.
C15_Witness ==
    /\ SameCall("c1", "c2")
    /\ inflight["c1"].pc = "Returned"
    /\ inflight["c2"].pc = "Returned"
    /\ inflight["c1"].tool = "search_index_list"
    /\ inflight["c1"].client = 1
    /\ inflight["c2"].client = 1
    /\ built[inflight["c1"].key] = 1
    /\ \E k \in CacheKeys : k # inflight["c1"].key /\ cache[k] # NoClient
    /\ inflight["c1"].result = inflight["c2"].result
    /\ inflight["c1"].result.tag = "list"

\* What execute_tool returns for the call of coroutine r when nothing else
\* is in flight and the store comes back as it did for r.
RunAlone(r) ==
    LET n == ArmIndex(r.svc, r.tool)
    IN  IF n = 0 THEN Envelope(UnsupportedError(r.tool))
        ELSE IF ValidationError(Chain(r.svc)[n], r.args) # NoExc
        THEN Envelope(ValidationError(Chain(r.svc)[n], r.args))
        ELSE IF CallError(r.svc, Chain(r.svc)[n].handler, Chain(r.svc)[n].nargs) # NoExc
        THEN Envelope(CallError(r.svc, Chain(r.svc)[n].handler, Chain(r.svc)[n].nargs))
        ELSE IF r.ret # NoVal THEN ReturnValue(r.ret)
        ELSE Envelope(r.exc)

\* The call of coroutine r passes lookup, validation and the call expression.
Dispatches(r) ==
    /\ ArmIndex(r.svc, r.tool) # 0
    /\ LET a == Chain(r.svc)[ArmIndex(r.svc, r.tool)]
       IN  ValidationError(a, r.args) = NoExc /\ CallError(r.svc, a.handler, a.nargs) = NoExc

\* C16: concurrent dispatch is safe without locking: however the steps of the
\* coroutines in flight interleave, each one starts the handler of its own
\* tool name with its own arguments, or none if its own bag is rejected, and
\* returns what it would return alone with the same handler outcome.
C16_NoInterference ==
    \A i \in Callers :
        LET r == inflight[i]
        IN  /\ r.handler # "" <=>
                  (Dispatches(r) /\ r.pc \notin {"idle", "Received"})
            /\ r.handler # "" =>
                  /\ r.handler = Chain(r.svc)[ArmIndex(r.svc, r.tool)].handler
                  /\ r.key = CacheKey(r.svc, r.handler, r.args)
            /\ r.pc = "Returned" => r.result = RunAlone(r)

\* One caller's call was rejected and answered while the other, with another
\* tool on another service, had its handler's value.
C16_Witness ==
    /\ inflight["c1"].pc = "Returned"
    /\ inflight["c1"].svc = "cosmos_mcp"
    /\ IsFailure(inflight["c1"].result)
    /\ inflight["c1"].handler = ""
    /\ inflight["c2"].pc = "Succeeded"
    /\ inflight["c2"].tool = "search_index_query"

C21_BagReadOnly ==
    [][(pc # "idle" /\ pc' # "idle") => args' = args]_vars

\* A bag of six arguments went through validation and a failing handler and
\* execute_tool has returned.
C21_Witness ==
    /\ ExecuteToolOver
    /\ tool = "cosmosdb_item_replace"
    /\ Cardinality(DOMAIN args) = 6
    /\ "handler" \in escaped
    /\ IsFailure(result)

Categories == {"ResourceNotFound", "ResourceAlreadyExists", "StoreError", "UnexpectedError"}

\* C23: the classifier is total with four outcomes: every exception that
\* reaches the except clauses of execute_tool gets one of the four
\* categories; an AzureError that is neither a ResourceNotFoundError nor a
\* ResourceExistsError gets StoreError, an exception that is no AzureError
\* gets UnexpectedError, and a category is given only to exceptions of the
\* class it stands for.
C23_ClassifierTotal ==
    (ExecuteToolOver /\ exc # NoExc) =>
        LET cs == Ancestors(exc.cls)
            c  == Category(result)
        IN  /\ pc = "Returned"
            /\ c \in Categories
            /\ ("AzureError" \in cs /\ "ResourceNotFoundError" \notin cs
                    /\ "ResourceExistsError" \notin cs) => c = "StoreError"
            /\ "AzureError" \notin cs => c = "UnexpectedError"
            /\ c = "ResourceNotFound" => "ResourceNotFoundError" \in cs
            /\ c = "ResourceAlreadyExists" => "ResourceExistsError" \in cs
            /\ c = "StoreError" => "AzureError" \in cs

\* A handler raised an AzureError of neither specific class and the store
\* category came back.
C23_Witness ==
    /\ ExecuteToolOver
    /\ "handler" \in escaped
    /\ exc.cls = "ServiceRequestError"
    /\ Category(result) = "StoreError"

\* The call of coroutine r is rejected by the chain: its tool name has no
\* arm, or a key its arm reads is absent, or an argument it tests is falsy.
RejectedCall(r) ==
    /\ r.pc # "idle"
    /\ \/ ArmIndex(r.svc, r.tool) = 0
       \/ ValidationError(Chain(r.svc)[ArmIndex(r.svc, r.tool)], r.args) # NoExc

\* C24: a rejected invocation leaves the client cache unchanged: a coroutine
\* whose call is rejected never asks a factory for a client, holds none, and
\* none of its steps, up to the return of the failure mapping, changes an
\* entry of the cache or builds a client.
C24_RejectedLeavesCache ==
    /\ [](\A i \in Callers :
            RejectedCall(inflight[i]) =>
                /\ inflight[i].handler = ""
                /\ inflight[i].key = NoKey
                /\ inflight[i].client = NoClient
                /\ inflight[i].pc = "Returned" => IsFailure(inflight[i].result))
    /\ [][\A i \in Callers :
            (inflight'[i] # inflight[i] /\ RejectedCall(inflight'[i])) =>
                cache' = cache /\ built' = built]_svars

\* An unsupported name sent with an account name was answered while the
\* cache, filled by an earlier call, kept its one entry.
C24_Witness ==
    /\ inflight["c1"].pc = "Returned"
    /\ inflight["c1"].tool = "bogus_tool"
    /\ inflight["c1"].args # EmptyBag
    /\ IsFailure(inflight["c1"].result)
    /\ inflight["c2"].pc = "Returned"
    /\ inflight["c2"].args = EmptyBag
    /\ inflight["c2"].tool = "search_index_query"
    /\ Cardinality({k \in CacheKeys : cache[k] # NoClient}) = 1

\* C25: a failed client construction is never memoized: a factory call
\* fails only when it ran the constructor (the key had no entry), the failing
\* step leaves the cache as it was, so the key still has no entry and the
\* next call for it runs the constructor again; the coroutine holds no
\* client, and execute_tool returns the failure as a failure mapping
\* carrying the constructor's text.
C25_FailureNotMemoized ==
    /\ [](\A i \in Callers :
            inflight[i].cfail =>
                /\ inflight[i].client = NoClient
                /\ inflight[i].exc \in ConstructExcs
                /\ inflight[i].pc \in {"Failed", "Returned"}
                /\ inflight[i].pc = "Returned" =>
                      inflight[i].result = Envelope(inflight[i].exc))
    /\ [](\A k \in CacheKeys : cache[k] \in {NoClient, 1} /\ built[k] <= 1)
    /\ [][\A i \in Callers :
            (inflight'[i].cfail /\ ~inflight[i].cfail) =>
                /\ cache[inflight[i].key] = NoClient
                /\ cache' = cache
                /\ built' = built]_svars

\* Construction failed for one caller and was answered with a failure
\* mapping; the other caller, with the same key, then had its client built.
C25_Witness ==
    /\ inflight["c1"].pc = "Returned"
    /\ inflight["c1"].cfail
    /\ IsFailure(inflight["c1"].result)
    /\ inflight["c2"].pc = "Calling"
    /\ inflight["c2"].key = inflight["c1"].key
    /\ inflight["c2"].client = 1
    /\ cache[inflight["c1"].key] = 1

\* The constructor runs for key k that the state shows: the clients built,
\* and the failed constructions of the coroutines in flight.
ConstructorRuns(k) ==
    built[k] + Cardinality({i \in Callers : inflight[i].cfail /\ inflight[i].key = k})

\* The coroutines in flight that hold a client of key k.
Holders(k) == {i \in Callers : inflight[i].key = k /\ inflight[i].client # NoClient}

\* C26 as stated: for each identifier the client constructor runs at most
\* once, whatever invocations name it and however they interleave, and all
\* of them use the same client.
C26_Original ==
    \A k \in CacheKeys :
        /\ ConstructorRuns(k) <= 1
        /\ \A i, j \in Holders(k) : inflight[i].client = inflight[j].client

\* C26 amended: for each identifier at most one client is ever constructed,
\* and all invocations naming it use that client; the constructor runs only
\* when the key has no entry, so it runs again only after a construction
\* that failed, and never once a client is stored.
C26_OneClientPerKey ==
    /\ [](\A k \in CacheKeys :
            /\ built[k] <= 1
            /\ \A i \in Holders(k) : inflight[i].client = 1 /\ cache[k] = 1
            /\ ConstructorRuns(k) > 1 => \E i \in Callers : inflight[i].cfail)
    /\ [][\A k \in CacheKeys :
            (\/ built'[k] # built[k]
             \/ \E i \in Callers : /\ inflight[i].key = k
                                   /\ inflight'[i].cfail
                                   /\ ~inflight[i].cfail)
            => cache[k] = NoClient]_svars

\* The constructor failed for one caller and was run again for the other,
\* which holds the one client of the key.
C26_Witness ==
    /\ inflight["c2"].cfail
    /\ inflight["c2"].pc = "Failed"
    /\ inflight["c1"].key = inflight["c2"].key
    /\ inflight["c1"].client = 1
    /\ inflight["c1"].pc = "Succeeded"
    /\ built[inflight["c1"].key] = 1

----------------------------------------------------------------------------
(* C27: search_index_query and query_type *)

\* The three fields the search_index_query arm tests are in the bag and truthy.
QueryFieldsGiven(b) ==
    \A k \in {"service_name", "index_name", "query"} : k \in DOMAIN b /\ Truthy(b[k])

\* The query type a simple-by-default reading gives the bag: the value's own
\* type when it is one of simple, full, semantic, and simple otherwise.
ExpectedQueryType(b) ==
    IF "query_type" \in DOMAIN b /\ b["query_type"] = Literal("full")
    THEN "QueryType.FULL"
    ELSE IF "query_type" \in DOMAIN b /\ b["query_type"] = Literal("semantic")
         THEN "QueryType.SEMANTIC"
         ELSE "QueryType.SIMPLE"

\* C27: search_index_query never rejects on query_type: the handler is started
\* exactly when service_name, index_name and query are given, whatever
\* query_type holds; an absent query_type is taken as "simple"; and once the
\* handler has its client, the search is made with the query type of the bag,
\* simple for any value outside simple, full and semantic, so that a failure
\* can only be the store's.
C27_Original ==
    \A i \in Callers :
        LET r == inflight[i]
        IN  (r.tool = "search_index_query" /\ r.pc \notin {"idle", "Received"}) =>
                /\ (r.handler = "_query_index") <=> QueryFieldsGiven(r.args)
                /\ (r.handler = "_query_index" /\ "query_type" \notin DOMAIN r.args)
                        => r.qtype = Literal("simple")
                /\ (r.handler = "_query_index" /\ r.client # NoClient
                    /\ r.pc \in {"Succeeded", "Failed", "Returned"})
                        => /\ r.sent = ExpectedQueryType(r.args)
                           /\ r.exc \in StoreExcs \cup {NoExc}

----------------------------------------------------------------------------
(* C28: query_items with its optional parameter left out *)

\* The invocation in flight came through the tool function query_items.
ThroughQueryItems ==
    /\ pc # "idle"
    /\ svc = "cosmos_mcp"
    /\ tool = "cosmosdb_item_query"
    /\ path # <<>> /\ path[1] = "tool_fn"

\* C28: cosmosdb_item_query invoked through query_items with parameters left
\* out or None reaches the handler: the bag the tool function builds always
\* has a "parameters" key holding a mapping, the empty one when nothing was
\* given, and once the arm has validated a bag whose account_name,
\* database_name, container_name and query are non-empty, _query_item has
\* been started, an empty "parameters" notwithstanding.
C28_ParametersOptional ==
    ThroughQueryItems =>
        /\ "parameters" \in DOMAIN args
        /\ args["parameters"].ty = "dict"
        /\ (/\ pc \notin {"Received", "Validating"}
            /\ \A k \in {"account_name", "database_name", "container_name", "query"} :
                    Truthy(args[k]))
                => started /\ called = <<"_query_item">> /\ pc # "Rejected"

\* query_items was called without parameters, the bag holds the empty mapping
\* under "parameters", and _query_item ran and returned.
C28_Witness ==
    /\ ThroughQueryItems
    /\ args["parameters"] = [ty |-> "dict", id |-> 0]
    /\ called = <<"_query_item">>
    /\ ExecuteToolOver
    /\ ~IsFailure(result)

----------------------------------------------------------------------------
(* C29: the two SearchServer classes as dispatchers *)

\* What execute_tool of service s returns for tool t and bag b when the
\* handler, if the call gets that far, raises e or (e being NoExc) returns v.
ExecuteToolResult(s, t, b, e, v) ==
    IF ArmIndex(s, t) = 0 THEN Envelope(UnsupportedError(t))
    ELSE LET a  == Chain(s)[ArmIndex(s, t)]
             ve == ValidationError(a, b)
             ce == CallError(s, a.handler, a.nargs)
         IN  IF ve # NoExc THEN Envelope(ve)
             ELSE IF ce # NoExc THEN Envelope(ce)
             ELSE IF e # NoExc THEN Envelope(e)
             ELSE ReturnValue(v)

\* The other SearchServer class.
OtherSearch(s) == IF s = "search_mcp" THEN "search_server" ELSE "search_mcp"

\* What the handler of the invocation raised, NoExc when it returned.
HandlerExc == IF "handler" \in escaped THEN exc ELSE NoExc

\* C29: the two SearchServer classes are equivalent dispatchers: when
\* execute_tool of one has returned for a tool of the search catalog, the
\* other's execute_tool, given the same tool name, the same bag and the same
\* handler outcome, returns a value of the same variant and the same category.
C29_Original ==
    (/\ ExecuteToolOver
     /\ pc = "Returned"
     /\ svc \in {"search_mcp", "search_server"}
     /\ tool \in CatalogNames("search_mcp")
     /\ started)
        => LET o == ExecuteToolResult(OtherSearch(svc), tool, args, HandlerExc, ret)
           IN  /\ result = ExecuteToolResult(svc, tool, args, HandlerExc, ret)
               /\ IsFailure(o) <=> IsFailure(result)
               /\ Category(o) = Category(result)

====
